---- MODULE Spec2Model ----
(***************************************************************************)
(* Loan lifecycle of the savings-and-loans cooperative server:             *)
(* applyForLoan, processLoanApplication (with createInstallmentSchedule)   *)
(* and recordLoanPayment, over the loans and loan_installments tables,     *)
(* createTransaction over accounts and transactions, deleteUser over       *)
(* users, and generateFinancialReport over all the tables.                 *)
(*                                                                         *)
(* Units.  Columns declared numeric(12,2) are held in cents, the column    *)
(* interest_rate numeric(5,2) in hundredths of a percent.  Handler inputs  *)
(* are JavaScript numbers and may carry more decimals than the column      *)
(* keeps: input amounts are in mills (1/10 cent), input rates in           *)
(* thousandths of a percent, and every write goes through the rounding     *)
(* the column applies.  Floating-point arithmetic of the handlers is       *)
(* modelled by exact rational arithmetic.                                  *)
(***************************************************************************)
EXTENDS Integers, Sequences, FiniteSets, TLC

VARIABLES users, loans, installments, now, npayments, call, threads,
          accounts, transactions, report

vars == <<users, loans, installments, now, npayments, call, threads,
          accounts, transactions, report>>

----------------------------------------------------------------------------
(* Bounds of the model *)

MaxLoans == 1

MaxInstallments == 2

MaxClock == 2

MaxPayments == 2

MaxTransactions == 2

(* Bounds of the schedule specification: principal in cents, term.         *)
MaxPrincipal == 12

MaxTerm == 5

(* Values *)

NULL == 0

UNDEFINED == -1

UserIds == {1, 2}

(* approved_by and recorded_by inputs: the management user. *)
ApproverInputs == {2}

(* CreateLoanApplicationInput values; amount in mills. *)
LoanApplicationInputs ==
  { [user_id |-> 1, amount |-> 4990, term_months |-> 2, purpose |-> 1],
    [user_id |-> 2, amount |-> 14,   term_months |-> 2, purpose |-> NULL],
    [user_id |-> 3, amount |-> 1000, term_months |-> 1, purpose |-> 1] }

(* interest_rate inputs in thousandths of a percent: 0% and 9.375%. *)
RateInputs == {0, 9375}

(* Inputs of the schedule specification: every principal of 0.01 ..       *)
(* MaxPrincipal cents over every term 1 .. MaxTerm, at 0% and 60%.         *)
ScheduleLoanInputs ==
  { [user_id |-> 1, amount |-> 10 * p, term_months |-> n, purpose |-> NULL] :
      p \in 1..MaxPrincipal, n \in 1..MaxTerm }

ScheduleRateInputs == {0, 60000}

DecisionInputs == {"approved", "rejected"}

(* The handler calls in flight, for the specifications that run handlers   *)
(* statement by statement: none in the others.                             *)
NoThreads == [pre |-> [loans |-> << >>, installments |-> << >>], proc |-> << >>]

(* paid_amount inputs of the concurrent calls, in mills: 0.01 and 2.49. *)
ConcurrentPaidAmounts == {10, 2490}

(* The report returned by the last generateFinancialReport call, as long   *)
(* as no handler has written since: none.                                  *)
NoReport == << >>

(* The write of a handler that the database fails, if any. *)
ProcessFaults == {"none", "update", "insert"}

PaymentFaults == {"none", "update_installment", "update_loan"}

----------------------------------------------------------------------------
(* Arithmetic *)

Abs(x) == IF x < 0 THEN -x ELSE x

Max(x, y) == IF x >= y THEN x ELSE y

RECURSIVE Gcd(_, _)
Gcd(x, y) == IF y = 0 THEN x ELSE Gcd(y, x % y)

RECURSIVE Pow(_, _)
Pow(x, n) == IF n = 0 THEN 1 ELSE x * Pow(x, n - 1)

(* x / d rounded to the nearest integer, ties away from zero: the rounding *)
(* PostgreSQL applies when a value is stored in a numeric(p,s) column.     *)
RoundDiv(x, d) ==
  LET q == Abs(x) \div d
      r == Abs(x) % d
      m == IF 2 * r >= d THEN q + 1 ELSE q
  IN  IF x < 0 THEN -m ELSE m

(* Math.round(x / d): nearest integer, ties towards +Infinity. *)
MathRound(x, d) ==
  LET q == x \div d
      r == x % d
  IN  IF 2 * r >= d THEN q + 1 ELSE q

(* A handler value in mills written to a numeric(12,2) column, in cents. *)
ToNumeric2(mills) == RoundDiv(mills, 10)

(* parseFloat of a numeric(12,2) column, in mills. *)
ParseFloat(cents) == cents * 10

(* input.interest_rate.toString() written to numeric(5,2). *)
RateToNumeric2(rate) == RoundDiv(rate, 10)

(* monthlyRate = interest_rate / 100 / 12 as a fraction in lowest terms;   *)
(* 0 / 1 when monthlyRate > 0 is false.                                    *)
MonthlyRateNum(rate) == IF rate > 0 THEN rate \div Gcd(rate, 1200000) ELSE 0

MonthlyRateDen(rate) == IF rate > 0 THEN 1200000 \div Gcd(rate, 1200000) ELSE 1

----------------------------------------------------------------------------
(* applyForLoan *)

UserExists(us, id) == id \in DOMAIN us

(* Variant: the application starts with the principal as remaining balance. *)
NewLoan_WithBalance(input) ==
  [ user_id           |-> input.user_id,
    amount            |-> ToNumeric2(input.amount),
    interest_rate     |-> 0,
    term_months       |-> input.term_months,
    monthly_payment   |-> 0,
    total_amount      |-> 0,
    remaining_balance |-> ToNumeric2(input.amount),
    status            |-> "pending",
    purpose           |-> input.purpose,
    approved_by       |-> NULL,
    approved_at       |-> NULL,
    disbursed_at      |-> NULL ]

NewLoan(input) ==
  [ user_id           |-> input.user_id,
    amount            |-> ToNumeric2(input.amount),
    interest_rate     |-> 0,
    term_months       |-> input.term_months,
    monthly_payment   |-> 0,
    total_amount      |-> 0,
    remaining_balance |-> 0,
    status            |-> "pending",
    purpose           |-> input.purpose,
    approved_by       |-> NULL,
    approved_at       |-> NULL,
    disbursed_at      |-> NULL ]

(* The savings account createUser opens with every user, balance in cents. *)
NewAccounts(us) == [i \in DOMAIN us |-> [user_id |-> i, balance |-> 0]]

(* The last handler call: the handler and how it ended. *)
Call(op, outcome) == [op |-> op, outcome |-> outcome]

ApplyForLoan ==
  \E input \in LoanApplicationInputs :
    /\ Len(loans) < MaxLoans
    /\ IF ~UserExists(users, input.user_id)
         THEN /\ call' = Call("apply", "NotFound")
              /\ UNCHANGED loans
         ELSE /\ loans' = Append(loans, NewLoan(input))
              /\ call' = Call("apply", "ok")
    /\ UNCHANGED <<users, installments, now, npayments, threads, accounts, transactions, report>>

Tick ==
  /\ now < MaxClock
  /\ now' = now + 1
  /\ call' = Call("tick", "ok")
  /\ UNCHANGED <<users, loans, installments, npayments, threads, accounts, transactions, report>>

----------------------------------------------------------------------------
(* processLoanApplication *)

(* monthlyPayment of processLoanApplication, in cents; principal in cents. *)
MonthlyPayment(principal, rate, termMonths) ==
  LET a == MonthlyRateNum(rate)
      b == MonthlyRateDen(rate)
      factorNum == Pow(a + b, termMonths)
      factorDen == Pow(b, termMonths)
  IN  IF rate > 0
        THEN MathRound(principal * a * factorNum, b * (factorNum - factorDen))
        ELSE MathRound(principal, termMonths)

(* Variant: the total is computed from the payment before it is rounded. *)
TotalAmount_Unrounded(principal, rate, termMonths) ==
  LET a == MonthlyRateNum(rate)
      b == MonthlyRateDen(rate)
      factorNum == Pow(a + b, termMonths)
      factorDen == Pow(b, termMonths)
  IN  IF rate > 0
        THEN MathRound(principal * a * factorNum * termMonths,
                       b * (factorNum - factorDen))
        ELSE principal

(* totalAmount of processLoanApplication, in cents. *)
TotalAmount(principal, rate, termMonths) ==
  IF rate > 0
    THEN MonthlyPayment(principal, rate, termMonths) * termMonths
    ELSE principal

(* Variant: a rejection is stamped with an approval time. *)
UpdateValues_StampRejection(loan, input, t) ==
  IF input.status = "approved"
    THEN [ loan EXCEPT
             !.status            = "active",
             !.approved_by       = input.approved_by,
             !.approved_at       = t,
             !.interest_rate     = RateToNumeric2(input.interest_rate),
             !.monthly_payment   = MonthlyPayment(loan.amount, input.interest_rate,
                                                  loan.term_months),
             !.total_amount      = TotalAmount(loan.amount, input.interest_rate,
                                               loan.term_months),
             !.remaining_balance = TotalAmount(loan.amount, input.interest_rate,
                                               loan.term_months) ]
    ELSE [ loan EXCEPT
             !.status      = input.status,
             !.approved_by = input.approved_by,
             !.approved_at = t ]

(* updateValues applied to the loan row. *)
UpdateValues(loan, input, t) ==
  IF input.status = "approved"
    THEN [ loan EXCEPT
             !.status            = "active",
             !.approved_by       = input.approved_by,
             !.approved_at       = t,
             !.interest_rate     = RateToNumeric2(input.interest_rate),
             !.monthly_payment   = MonthlyPayment(loan.amount, input.interest_rate,
                                                  loan.term_months),
             !.total_amount      = TotalAmount(loan.amount, input.interest_rate,
                                               loan.term_months),
             !.remaining_balance = TotalAmount(loan.amount, input.interest_rate,
                                               loan.term_months) ]
    ELSE [ loan EXCEPT
             !.status      = input.status,
             !.approved_by = input.approved_by,
             !.approved_at = NULL ]

(* One row of the schedule.  remS is remainingBalance and scale the common *)
(* denominator of the exact values: a value v stands for v / scale cents.  *)
InstallmentRow(loanId, i, termMonths, rate, monthlyPayment, remS, scale, t) ==
  LET a == MonthlyRateNum(rate)
      b == MonthlyRateDen(rate)
      interestAmount == (remS * a) \div b
      principalAmount == monthlyPayment * scale - interestAmount
      adjustedPrincipalAmount == IF i = termMonths THEN remS ELSE principalAmount
      adjustedMonthlyPayment ==
        IF i = termMonths THEN remS + interestAmount ELSE monthlyPayment * scale
  IN  [ loan_id            |-> loanId,
        installment_number |-> i,
        due_date           |-> t + i,
        amount             |-> RoundDiv(adjustedMonthlyPayment, scale),
        principal_amount   |-> RoundDiv(adjustedPrincipalAmount, scale),
        interest_amount    |-> RoundDiv(interestAmount, scale),
        paid_amount        |-> 0,
        paid_at            |-> NULL,
        recorded_by        |-> NULL,
        is_paid            |-> FALSE ]

(* remainingBalance after row i, in units of 1 / scale cents. *)
NextRemaining(i, termMonths, rate, monthlyPayment, remS, scale) ==
  LET a == MonthlyRateNum(rate)
      b == MonthlyRateDen(rate)
      interestAmount == (remS * a) \div b
  IN  IF i = termMonths THEN 0
      ELSE remS - (monthlyPayment * scale - interestAmount)

RECURSIVE ScheduleFrom(_, _, _, _, _, _, _, _)
ScheduleFrom(loanId, i, termMonths, rate, monthlyPayment, remS, scale, t) ==
  IF i > termMonths THEN << >>
  ELSE <<InstallmentRow(loanId, i, termMonths, rate, monthlyPayment, remS, scale, t)>>
       \o ScheduleFrom(loanId, i + 1, termMonths, rate, monthlyPayment,
                       NextRemaining(i, termMonths, rate, monthlyPayment, remS, scale),
                       scale, t)

(* The rows createInstallmentSchedule inserts. *)
CreateInstallmentSchedule(loanId, principal, rate, termMonths, monthlyPayment, t) ==
  LET scale == Pow(MonthlyRateDen(rate), termMonths)
  IN  ScheduleFrom(loanId, 1, termMonths, rate, monthlyPayment,
                   principal * scale, scale, t)

(* Variant: a rejected application may be processed again. *)
IsPending_Reprocess(loan) == loan.status \in {"pending", "rejected"}

IsPending(loan) == loan.status = "pending"

(* Variant: the interest rate is not required. *)
InterestRateMissing_Unchecked(input) == FALSE

InterestRateMissing(input) ==
  input.status = "approved" /\ input.interest_rate = UNDEFINED

(* The handler as a function of the tables, its input, the time and the    *)
(* write that fails: the tables it leaves and how it returns.              *)
ProcessResult(ls, ins, input, t, fail) ==
  LET same(o) == [loans |-> ls, installments |-> ins, outcome |-> o]
  IN
  IF input.loan_id \notin DOMAIN ls THEN same("NotFound")
  ELSE IF ~IsPending(ls[input.loan_id]) THEN same("InvalidState")
  ELSE IF InterestRateMissing(input) THEN same("MissingArgument")
  ELSE IF fail = "update" THEN same("DbError")
  ELSE
    LET updatedLoan == UpdateValues(ls[input.loan_id], input, t)
        ls2 == [ls EXCEPT ![input.loan_id] = updatedLoan]
    IN  IF input.status # "approved"
          THEN [loans |-> ls2, installments |-> ins, outcome |-> "ok"]
        ELSE IF fail = "insert"
          THEN [loans |-> ls2, installments |-> ins, outcome |-> "DbError"]
        ELSE [loans |-> ls2,
              installments |-> ins \o CreateInstallmentSchedule(
                                 input.loan_id, updatedLoan.amount, input.interest_rate,
                                 updatedLoan.term_months, updatedLoan.monthly_payment, t),
              outcome |-> "ok"]

(* One call of the handler with a rate among rates, while the installments *)
(* table holds at most maxRows rows.                                       *)
ProcessLoanApplicationOf(rates, maxRows) ==
  \E id \in 1..(Len(loans) + 1), d \in DecisionInputs, by \in ApproverInputs,
     r \in rates \cup {UNDEFINED}, fail \in ProcessFaults :
    LET input == [loan_id |-> id, status |-> d, approved_by |-> by, interest_rate |-> r]
        res == ProcessResult(loans, installments, input, now, fail)
    IN  /\ Len(res.installments) <= maxRows
        /\ loans' = res.loans
        /\ installments' = res.installments
        /\ call' = Call("process", res.outcome)
        /\ UNCHANGED <<users, now, npayments, threads, accounts, transactions, report>>

ProcessLoanApplication == ProcessLoanApplicationOf(RateInputs, MaxInstallments)

(* processLoanApplication on the loan of the schedule specification. *)
ProcessScheduleLoan == ProcessLoanApplicationOf(ScheduleRateInputs, MaxTerm)

----------------------------------------------------------------------------
(* recordLoanPayment *)

(* paid_amount inputs, in mills, for an installment: half a cent, exactly  *)
(* what is still due, one cent more than that.                             *)
PaidAmountInputs(inst) ==
  LET due == ParseFloat(inst.amount - inst.paid_amount)
  IN  {p \in {5, due, due + 10} : p > 0}

(* Variant: the balance is not floored at 0. *)
NewRemainingBalance_NoFloor(currentRemainingBalance, paid) ==
  ToNumeric2(ParseFloat(currentRemainingBalance) - paid)

(* remaining_balance written by recordLoanPayment, in cents. *)
NewRemainingBalance(currentRemainingBalance, paid) ==
  ToNumeric2(Max(0, ParseFloat(currentRemainingBalance) - paid))

(* Variant: a loan paid down to 0 is marked completed. *)
LoanAfterPayment_AutoComplete(loan, paid) ==
  [loan EXCEPT
     !.remaining_balance = NewRemainingBalance(loan.remaining_balance, paid),
     !.status = IF NewRemainingBalance(loan.remaining_balance, paid) = 0
                  THEN "completed" ELSE loan.status]

(* The loan row after the remaining_balance update of recordLoanPayment. *)
LoanAfterPayment(loan, paid) ==
  [loan EXCEPT !.remaining_balance = NewRemainingBalance(loan.remaining_balance, paid)]

(* The installment row written by recordLoanPayment. *)
PaidInstallment(inst, input, t) ==
  LET newPaidAmount == ParseFloat(inst.paid_amount) + input.paid_amount
      isPaid == newPaidAmount >= ParseFloat(inst.amount)
  IN  [ inst EXCEPT
          !.paid_amount = ToNumeric2(newPaidAmount),
          !.is_paid     = isPaid,
          !.paid_at     = IF isPaid /\ inst.paid_at = NULL THEN t ELSE inst.paid_at,
          !.recorded_by = input.recorded_by ]

(* Variant: the check compares the payment alone with the amount. *)
ExceedsInstallment_PaymentAlone(installment, paid) ==
  paid > ParseFloat(installment.amount)

(* newPaidAmount > installmentAmount *)
ExceedsInstallment(installment, paid) ==
  ParseFloat(installment.paid_amount) + paid > ParseFloat(installment.amount)

PaymentResult(ls, ins, input, t, fail) ==
  LET same(o) == [loans |-> ls, installments |-> ins, outcome |-> o]
  IN
  IF input.installment_id \notin DOMAIN ins THEN same("NotFound")
  ELSE
    LET installment == ins[input.installment_id]
    IN
    IF ExceedsInstallment(installment, input.paid_amount) THEN same("Overpayment")
    ELSE IF fail = "update_installment" THEN same("DbError")
    ELSE
      LET ins2 == [ins EXCEPT ![input.installment_id] =
                                 PaidInstallment(installment, input, t)]
          loan == ls[installment.loan_id]
      IN  IF installment.loan_id \notin DOMAIN ls
            THEN [loans |-> ls, installments |-> ins2, outcome |-> "ok"]
          ELSE IF fail = "update_loan"
            THEN [loans |-> ls, installments |-> ins2, outcome |-> "DbError"]
          ELSE [loans |-> [ls EXCEPT ![installment.loan_id] =
                             LoanAfterPayment(loan, input.paid_amount)],
                installments |-> ins2,
                outcome |-> "ok"]

RecordLoanPayment ==
  /\ npayments < MaxPayments
  /\ \E id \in 1..(Len(installments) + 1), by \in ApproverInputs, fail \in PaymentFaults :
       \E p \in (IF id \in DOMAIN installments
                   THEN PaidAmountInputs(installments[id]) ELSE {5}) :
         LET input == [installment_id |-> id, paid_amount |-> p, recorded_by |-> by]
             res == PaymentResult(loans, installments, input, now, fail)
         IN  /\ loans' = res.loans
             /\ installments' = res.installments
             /\ call' = Call("pay", res.outcome)
             /\ npayments' = IF res.installments # installments
                                THEN npayments + 1 ELSE npayments
             /\ UNCHANGED <<users, now, threads, accounts, transactions, report>>

----------------------------------------------------------------------------
(* deleteUser *)

(* The loans of the user that are active, pending or approved. *)
OutstandingLoans(ls, userId) ==
  {k \in DOMAIN ls : /\ ls[k].user_id = userId
                     /\ ls[k].status \in {"active", "pending", "approved"}}

(* The handler as a function of the tables and its input: the users it     *)
(* leaves and how it returns.                                              *)
DeleteUserResult(us, ls, userId, fail) ==
  IF ~UserExists(us, userId) THEN [users |-> us, outcome |-> "NotFound"]
  ELSE IF ~us[userId].is_active THEN [users |-> us, outcome |-> "AlreadyInactive"]
  ELSE IF OutstandingLoans(ls, userId) # {}
    THEN [users |-> us, outcome |-> "OutstandingLoans"]
  ELSE IF fail THEN [users |-> us, outcome |-> "DbError"]
  ELSE [users |-> [us EXCEPT ![userId].is_active = FALSE], outcome |-> "ok"]

DeleteUser ==
  \E userId \in UserIds \cup {3}, fail \in BOOLEAN :
    LET res == DeleteUserResult(users, loans, userId, fail)
    IN  /\ users' = res.users
        /\ call' = Call("delete", res.outcome)
        /\ UNCHANGED <<loans, installments, now, npayments, threads,
                       accounts, transactions, report>>

----------------------------------------------------------------------------
(* createTransaction *)

(* CreateTransactionInput values; amount in mills: 0.005, 0.01 and 0.02.   *)
(* Account 3 and user 3 do not exist.                                      *)
TransactionInputs ==
  { [account_id |-> a, type |-> ty, amount |-> m, processed_by |-> by] :
      a \in {1, 3}, ty \in {"deposit", "withdrawal"}, m \in {5, 10, 20},
      by \in {2, 3} }

(* The db.transaction of createTransaction fails, or not. *)
TransactionFaults == {"none", "transaction"}

(* Variant: a withdrawal is never refused. *)
InsufficientBalance_Unchecked(currentBalance, input) == FALSE

(* input.type === 'withdrawal' && currentBalance < input.amount *)
InsufficientBalance(currentBalance, input) ==
  input.type = "withdrawal" /\ currentBalance < input.amount

(* newBalance, in mills. *)
NewBalance(currentBalance, input) ==
  IF input.type = "deposit"
    THEN currentBalance + input.amount
    ELSE currentBalance - input.amount

(* The row inserted into transactions; amount in cents. *)
NewTransaction(input, t) ==
  [ account_id   |-> input.account_id,
    type         |-> input.type,
    amount       |-> ToNumeric2(input.amount),
    processed_by |-> input.processed_by,
    created_at   |-> t ]

(* The handler as a function of the tables, its input, the time and the    *)
(* write that fails: the tables it leaves and how it returns.              *)
TransactionResult(accts, txs, us, input, t, fail) ==
  LET same(o) == [accounts |-> accts, transactions |-> txs, outcome |-> o]
  IN
  IF input.account_id \notin DOMAIN accts THEN same("AccountNotFound")
  ELSE
    LET currentBalance == ParseFloat(accts[input.account_id].balance)
    IN
    IF InsufficientBalance(currentBalance, input) THEN same("InsufficientBalance")
    ELSE IF ~UserExists(us, input.processed_by) THEN same("ProcessorNotFound")
    ELSE IF fail = "transaction" THEN same("DbError")
    ELSE [ accounts |-> [accts EXCEPT ![input.account_id].balance =
                           ToNumeric2(NewBalance(currentBalance, input))],
           transactions |-> Append(txs, NewTransaction(input, t)),
           outcome |-> "ok" ]

CreateTransaction ==
  /\ Len(transactions) < MaxTransactions
  /\ \E input \in TransactionInputs, fail \in TransactionFaults :
       LET res == TransactionResult(accounts, transactions, users, input, now, fail)
       IN  /\ accounts' = res.accounts
           /\ transactions' = res.transactions
           /\ call' = Call("transaction", res.outcome)
           /\ report' = IF res.outcome = "ok" THEN NoReport ELSE report
           /\ UNCHANGED <<users, loans, installments, now, npayments, threads>>

----------------------------------------------------------------------------
(* generateFinancialReport *)

(* gte(column, start_date) and lte(column, end_date): no row whose column   *)
(* is null satisfies them.                                                 *)
InWindow(t, start_date, end_date) ==
  t # NULL /\ t >= start_date /\ t <= end_date

(* sum(column) over the rows in S, f[k] being the column of row k; the     *)
(* handler reads the null of an empty sum as 0.                            *)
RECURSIVE SumOver(_, _)
SumOver(f, S) ==
  IF S = {} THEN 0
  ELSE LET k == CHOOSE x \in S : TRUE
       IN  f[k] + SumOver(f, S \ {k})

(* Variant: the window of the savings section starts at the time of the   *)
(* call.                                                                  *)
CalculateSavingsStatistics_FromNow(txs, accts, start_date, end_date) ==
  LET amount == [k \in DOMAIN txs |-> txs[k].amount]
      inRange(type) == {k \in DOMAIN txs :
                          /\ txs[k].type = type
                          /\ InWindow(txs[k].created_at, now, end_date)}
      total_deposits == SumOver(amount, inRange("deposit"))
      total_withdrawals == SumOver(amount, inRange("withdrawal"))
  IN  [ total_deposits    |-> total_deposits,
        total_withdrawals |-> total_withdrawals,
        net_savings       |-> total_deposits - total_withdrawals,
        total_balance     |-> SumOver([k \in DOMAIN accts |-> accts[k].balance],
                                      DOMAIN accts) ]

CalculateSavingsStatistics(txs, accts, start_date, end_date) ==
  LET amount == [k \in DOMAIN txs |-> txs[k].amount]
      inRange(type) == {k \in DOMAIN txs :
                          /\ txs[k].type = type
                          /\ InWindow(txs[k].created_at, start_date, end_date)}
      total_deposits == SumOver(amount, inRange("deposit"))
      total_withdrawals == SumOver(amount, inRange("withdrawal"))
  IN  [ total_deposits    |-> total_deposits,
        total_withdrawals |-> total_withdrawals,
        net_savings       |-> total_deposits - total_withdrawals,
        total_balance     |-> SumOver([k \in DOMAIN accts |-> accts[k].balance],
                                      DOMAIN accts) ]

CalculateLoanStatistics(ls, ins, start_date, end_date) ==
  LET active == {k \in DOMAIN ls : ls[k].status = "active"}
      repaid == {k \in DOMAIN ins :
                   /\ ins[k].is_paid
                   /\ InWindow(ins[k].paid_at, start_date, end_date)}
  IN  [ total_disbursed |->
          SumOver([k \in DOMAIN ls |-> ls[k].amount],
                  {k \in active : InWindow(ls[k].disbursed_at, start_date, end_date)}),
        total_repaid |-> SumOver([k \in DOMAIN ins |-> ins[k].paid_amount], repaid),
        outstanding_principal |->
          SumOver([k \in DOMAIN ls |-> ls[k].remaining_balance], active),
        interest_earned |->
          SumOver([k \in DOMAIN ins |-> ins[k].interest_amount], repaid),
        active_loans    |-> Cardinality(active),
        completed_loans |-> Cardinality({k \in DOMAIN ls : ls[k].status = "completed"}) ]

(* collection_rate as returned, in hundredths of a percent; the amounts in *)
(* cents.                                                                  *)
CollectionRate(total_collected, total_expected) ==
  IF total_expected > 0
    THEN MathRound(total_collected * 10000, total_expected)
    ELSE 0

CalculateInstallmentStatistics(ins, start_date, end_date) ==
  LET total_expected ==
        SumOver([k \in DOMAIN ins |-> ins[k].amount],
                {k \in DOMAIN ins : InWindow(ins[k].due_date, start_date, end_date)})
      total_collected ==
        SumOver([k \in DOMAIN ins |-> ins[k].paid_amount],
                {k \in DOMAIN ins :
                   /\ ins[k].paid_amount > 0
                   /\ InWindow(ins[k].paid_at, start_date, end_date)})
      overdue_amount ==
        SumOver([k \in DOMAIN ins |-> ins[k].amount - ins[k].paid_amount],
                {k \in DOMAIN ins :
                   ~ins[k].is_paid /\ ins[k].due_date <= end_date})
  IN  [ total_expected  |-> total_expected,
        total_collected |-> total_collected,
        overdue_amount  |-> overdue_amount,
        collection_rate |-> CollectionRate(total_collected, total_expected) ]

GenerateFinancialReport(txs, accts, ls, ins, start_date, end_date) ==
  [ period       |-> [start_date |-> start_date, end_date |-> end_date],
    savings      |-> CalculateSavingsStatistics(txs, accts, start_date, end_date),
    loans        |-> CalculateLoanStatistics(ls, ins, start_date, end_date),
    installments |-> CalculateInstallmentStatistics(ins, start_date, end_date) ]

(* start_date and end_date inputs of the generateFinancialReport calls. *)
ReportWindowInputs == {<<s, e>> : s \in 1..(MaxClock + 1), e \in 1..(MaxClock + 1)}

(* One call of generateFinancialReport: it returns the report. *)
GenerateReport ==
  \E w \in ReportWindowInputs :
    /\ report' = << GenerateFinancialReport(transactions, accounts, loans,
                                            installments, w[1], w[2]) >>
    /\ call' = Call("report", "ok")
    /\ UNCHANGED <<users, loans, installments, now, npayments, threads,
                   accounts, transactions>>

----------------------------------------------------------------------------

Init ==
  /\ users = [i \in UserIds |-> [is_active |-> TRUE]]
  /\ accounts = NewAccounts(users)
  /\ transactions = << >>
  /\ report = NoReport
  /\ loans = << >>
  /\ installments = << >>
  /\ now = 1
  /\ npayments = 0
  /\ call = Call("none", "ok")
  /\ threads = NoThreads

Next ==
  \/ ApplyForLoan
  \/ ProcessLoanApplication
  \/ RecordLoanPayment
  \/ Tick

Spec == Init /\ [][Next]_vars

(* The schedule specification: one pending application, of any principal   *)
(* and term within the bounds, as applyForLoan leaves it; then             *)
(* processLoanApplication.                                                 *)
InitSchedule ==
  /\ users = [i \in UserIds |-> [is_active |-> TRUE]]
  /\ accounts = NewAccounts(users)
  /\ transactions = << >>
  /\ report = NoReport
  /\ \E input \in ScheduleLoanInputs : loans = <<NewLoan(input)>>
  /\ installments = << >>
  /\ now = 1
  /\ npayments = 0
  /\ call = Call("apply", "ok")
  /\ threads = NoThreads

NextSchedule == ProcessScheduleLoan

SpecSchedule == InitSchedule /\ [][NextSchedule]_vars

(* The report specification: an application of 0.02 over 4 months or of    *)
(* 0.10 over 2 months, processed and then paid while the clock runs up to  *)
(* the due date of the last installment; generateFinancialReport reads the *)
(* tables in every state.                                                  *)
ReportLoanInputs ==
  { [user_id |-> 1, amount |-> 20, term_months |-> 4, purpose |-> NULL],
    [user_id |-> 1, amount |-> 100, term_months |-> 2, purpose |-> NULL] }

InitReport ==
  /\ users = [i \in UserIds |-> [is_active |-> TRUE]]
  /\ accounts = NewAccounts(users)
  /\ transactions = << >>
  /\ report = NoReport
  /\ \E input \in ReportLoanInputs : loans = <<NewLoan(input)>>
  /\ installments = << >>
  /\ now = 1
  /\ npayments = 0
  /\ call = Call("apply", "ok")
  /\ threads = NoThreads

TickReport ==
  /\ now < MaxTerm
  /\ now' = now + 1
  /\ call' = Call("tick", "ok")
  /\ UNCHANGED <<users, loans, installments, npayments, threads, accounts, transactions, report>>

(* start_date and end_date inputs of generateFinancialReport. *)
ReportDates == 1..(MaxTerm + 1)

NextReport ==
  \/ ProcessScheduleLoan
  \/ RecordLoanPayment
  \/ TickReport

SpecReport == InitReport /\ [][NextReport]_vars

(* The users specification: deleteUser, applyForLoan and                   *)
(* processLoanApplication calls, one at a time.                            *)
NextUsers ==
  \/ DeleteUser
  \/ ApplyForLoan
  \/ ProcessLoanApplication

SpecUsers == Init /\ [][NextUsers]_vars

(* The ledger specification: createTransaction and generateFinancialReport *)
(* calls, one at a time, on the accounts createUser opened and a loan that *)
(* was just approved.                                                      *)
InitLedger ==
  /\ users = [i \in UserIds |-> [is_active |-> TRUE]]
  /\ accounts = NewAccounts(users)
  /\ transactions = << >>
  /\ report = NoReport
  /\ now = 1
  /\ npayments = 0
  /\ call = Call("process", "ok")
  /\ threads = NoThreads
  /\ \E input \in LoanApplicationInputs, r \in RateInputs, by \in ApproverInputs :
       /\ UserExists(users, input.user_id)
       /\ LET res == ProcessResult(<<NewLoan(input)>>, << >>,
                                   [loan_id |-> 1, status |-> "approved",
                                    approved_by |-> by, interest_rate |-> r],
                                   now, "none")
          IN  /\ loans = res.loans
              /\ installments = res.installments

NextLedger ==
  \/ CreateTransaction
  \/ GenerateReport
  \/ Tick

SpecLedger == InitLedger /\ [][NextLedger]_vars

----------------------------------------------------------------------------
(* Two recordLoanPayment calls running concurrently, one database          *)
(* statement at a time, on a loan that was just approved.                  *)

(* A call that has not run its first statement. *)
Thread(input) ==
  [ pc          |-> "select_installment",
    input       |-> input,
    installment |-> NULL,
    loan        |-> NULL,
    outcome     |-> "none" ]

(* db.select() from loan_installments, and the checks on the row read. *)
SelectInstallment(p) ==
  LET th == threads.proc[p]
      id == th.input.installment_id
  IN  /\ th.pc = "select_installment"
      /\ threads' = [threads EXCEPT !.proc[p] =
           IF id \notin DOMAIN installments
             THEN [th EXCEPT !.pc = "done", !.outcome = "NotFound"]
           ELSE IF ExceedsInstallment(installments[id], th.input.paid_amount)
             THEN [th EXCEPT !.pc = "done", !.outcome = "Overpayment"]
           ELSE [th EXCEPT !.pc = "update_installment",
                           !.installment = installments[id]]]
      /\ UNCHANGED <<users, loans, installments, now, npayments, call, accounts, transactions, report>>

(* db.update(loanInstallmentsTable) with the values computed from the row  *)
(* read earlier.                                                           *)
UpdateInstallment(p) ==
  LET th == threads.proc[p]
      id == th.input.installment_id
      w  == PaidInstallment(th.installment, th.input, now)
  IN  /\ th.pc = "update_installment"
      /\ installments' = [installments EXCEPT ![id] =
                            [@ EXCEPT !.paid_amount = w.paid_amount,
                                      !.is_paid     = w.is_paid,
                                      !.paid_at     = w.paid_at,
                                      !.recorded_by = w.recorded_by]]
      /\ threads' = [threads EXCEPT !.proc[p].pc = "select_loan"]
      /\ UNCHANGED <<users, loans, now, npayments, call, accounts, transactions, report>>

(* db.select() from loans. *)
SelectLoan(p) ==
  LET th  == threads.proc[p]
      lid == th.installment.loan_id
  IN  /\ th.pc = "select_loan"
      /\ threads' = [threads EXCEPT !.proc[p] =
           IF lid \notin DOMAIN loans
             THEN [th EXCEPT !.pc = "done", !.outcome = "ok"]
             ELSE [th EXCEPT !.pc = "update_loan", !.loan = loans[lid]]]
      /\ UNCHANGED <<users, loans, installments, now, npayments, call, accounts, transactions, report>>

(* db.update(loansTable) with the balance computed from the row read. *)
UpdateLoan(p) ==
  LET th  == threads.proc[p]
      lid == th.installment.loan_id
  IN  /\ th.pc = "update_loan"
      /\ loans' = [loans EXCEPT ![lid].remaining_balance =
                     LoanAfterPayment(th.loan, th.input.paid_amount).remaining_balance]
      /\ threads' = [threads EXCEPT !.proc[p] =
                       [th EXCEPT !.pc = "done", !.outcome = "ok"]]
      /\ UNCHANGED <<users, installments, now, npayments, call, accounts, transactions, report>>

InitPayments ==
  /\ users = [i \in UserIds |-> [is_active |-> TRUE]]
  /\ accounts = NewAccounts(users)
  /\ transactions = << >>
  /\ report = NoReport
  /\ now = 1
  /\ npayments = 0
  /\ call = Call("process", "ok")
  /\ \E input \in LoanApplicationInputs, r \in RateInputs, by \in ApproverInputs :
       /\ UserExists(users, input.user_id)
       /\ LET res == ProcessResult(<<NewLoan(input)>>, << >>,
                                   [loan_id |-> 1, status |-> "approved",
                                    approved_by |-> by, interest_rate |-> r],
                                   now, "none")
          IN  /\ loans = res.loans
              /\ installments = res.installments
              /\ \E i1 \in DOMAIN res.installments, i2 \in DOMAIN res.installments,
                    p1 \in ConcurrentPaidAmounts, p2 \in ConcurrentPaidAmounts :
                   threads =
                     [ pre  |-> [loans |-> res.loans, installments |-> res.installments],
                       proc |-> << Thread([installment_id |-> i1, paid_amount |-> p1,
                                           recorded_by |-> by]),
                                   Thread([installment_id |-> i2, paid_amount |-> p2,
                                           recorded_by |-> by]) >> ]

NextPayments ==
  \E p \in DOMAIN threads.proc :
    \/ SelectInstallment(p)
    \/ UpdateInstallment(p)
    \/ SelectLoan(p)
    \/ UpdateLoan(p)

SpecPayments == InitPayments /\ [][NextPayments]_vars

----------------------------------------------------------------------------
(* A generateFinancialReport call running concurrently with a              *)
(* recordLoanPayment call, one database statement at a time.               *)

(* The queries of generateFinancialReport, in the order it runs them. *)
ReportQueries ==
  << "transaction_stats", "total_balance", "total_disbursed", "total_repaid",
     "outstanding_principal", "interest_earned", "loan_counts",
     "total_expected", "total_collected", "overdue_amount" >>

(* The section a query belongs to and the fields it reads. *)
QueryFields(q) ==
  CASE q = "transaction_stats" ->
         [section |-> "savings", fields |-> {"total_deposits", "total_withdrawals"}]
    [] q = "total_balance" -> [section |-> "savings", fields |-> {"total_balance"}]
    [] q = "loan_counts" ->
         [section |-> "loans", fields |-> {"active_loans", "completed_loans"}]
    [] q \in {"total_disbursed", "total_repaid", "outstanding_principal",
              "interest_earned"} -> [section |-> "loans", fields |-> {q}]
    [] OTHER -> [section |-> "installments", fields |-> {q}]

(* The query that follows q, or done after the last one. *)
NextQuery(q) ==
  LET i == CHOOSE k \in DOMAIN ReportQueries : ReportQueries[k] = q
  IN  IF i = Len(ReportQueries) THEN "done" ELSE ReportQueries[i + 1]

(* A report call that has not run its first query: nothing read yet. *)
ReportThread(start_date, end_date) ==
  [ pc      |-> ReportQueries[1],
    input   |-> [start_date |-> start_date, end_date |-> end_date],
    read    |-> GenerateFinancialReport(<< >>, << >>, << >>, << >>,
                                        start_date, end_date),
    outcome |-> "none" ]

(* What the call has read once the query q ran on the tables as they are. *)
ReadQuery(read, q, txs, accts, ls, ins) ==
  LET cur == GenerateFinancialReport(txs, accts, ls, ins,
                                     read.period.start_date, read.period.end_date)
      qf  == QueryFields(q)
  IN  [read EXCEPT ![qf.section] =
         [f \in DOMAIN read[qf.section] |->
            IF f \in qf.fields THEN cur[qf.section][f] ELSE read[qf.section][f]]]

(* The report returned: net_savings and collection_rate are computed from  *)
(* the values read.                                                        *)
ReturnedReport(read) ==
  [read EXCEPT
     !.savings.net_savings = read.savings.total_deposits - read.savings.total_withdrawals,
     !.installments.collection_rate =
        CollectionRate(read.installments.total_collected,
                       read.installments.total_expected)]

(* One query of the report call p. *)
ReportQuery(p) ==
  LET th == threads.proc[p]
      nq == NextQuery(th.pc)
      rd == ReadQuery(th.read, th.pc, transactions, accounts, loans, installments)
  IN  /\ th.pc \notin {"select_installment", "update_installment", "select_loan",
                       "update_loan", "done"}
      /\ threads' = [threads EXCEPT !.proc[p] =
           [th EXCEPT !.pc = nq,
                      !.read = IF nq = "done" THEN ReturnedReport(rd) ELSE rd,
                      !.outcome = IF nq = "done" THEN "ok" ELSE "none"]]
      /\ UNCHANGED <<users, loans, installments, now, npayments, call,
                     accounts, transactions, report>>

InitSnapshot ==
  /\ users = [i \in UserIds |-> [is_active |-> TRUE]]
  /\ accounts = NewAccounts(users)
  /\ transactions = << >>
  /\ report = NoReport
  /\ now = 1
  /\ npayments = 0
  /\ call = Call("process", "ok")
  /\ \E input \in LoanApplicationInputs, r \in RateInputs, by \in ApproverInputs :
       /\ UserExists(users, input.user_id)
       /\ LET res == ProcessResult(<<NewLoan(input)>>, << >>,
                                   [loan_id |-> 1, status |-> "approved",
                                    approved_by |-> by, interest_rate |-> r],
                                   now, "none")
          IN  /\ loans = res.loans
              /\ installments = res.installments
              /\ \E i1 \in DOMAIN res.installments, p1 \in ConcurrentPaidAmounts,
                    w \in ReportWindowInputs :
                   threads =
                     [ pre  |-> [loans |-> res.loans, installments |-> res.installments],
                       proc |-> << Thread([installment_id |-> i1, paid_amount |-> p1,
                                           recorded_by |-> by]),
                                   ReportThread(w[1], w[2]) >> ]

NextSnapshot ==
  \/ SelectInstallment(1)
  \/ UpdateInstallment(1)
  \/ SelectLoan(1)
  \/ UpdateLoan(1)
  \/ ReportQuery(2)

SpecSnapshot == InitSnapshot /\ [][NextSnapshot]_vars

----------------------------------------------------------------------------
(* Two processLoanApplication calls for the same pending loan running      *)
(* concurrently, one database statement at a time.                         *)

(* A ProcessLoanApplicationInput value. *)
ProcessInput(id, d, by, r) ==
  [loan_id |-> id, status |-> d, approved_by |-> by, interest_rate |-> r]

(* A call that has not run its first statement. *)
ProcessThread(input) ==
  [ pc          |-> "select_application",
    input       |-> input,
    updatedLoan |-> NULL,
    outcome     |-> "none" ]

(* db.select() from loans, and the checks on the row read. *)
SelectApplication(p) ==
  LET th == threads.proc[p]
      id == th.input.loan_id
  IN  /\ th.pc = "select_application"
      /\ threads' = [threads EXCEPT !.proc[p] =
           IF id \notin DOMAIN loans
             THEN [th EXCEPT !.pc = "done", !.outcome = "NotFound"]
           ELSE IF ~IsPending(loans[id])
             THEN [th EXCEPT !.pc = "done", !.outcome = "InvalidState"]
           ELSE IF InterestRateMissing(th.input)
             THEN [th EXCEPT !.pc = "done", !.outcome = "MissingArgument"]
           ELSE [th EXCEPT !.pc = "update_application"]]
      /\ UNCHANGED <<users, loans, installments, now, npayments, call,
                     accounts, transactions, report>>

(* db.update(loansTable).set(updateValues).where(id).returning(): the      *)
(* update has no condition on the status.                                  *)
UpdateApplication(p) ==
  LET th == threads.proc[p]
      id == th.input.loan_id
      updatedLoan == UpdateValues(loans[id], th.input, now)
  IN  /\ th.pc = "update_application"
      /\ loans' = [loans EXCEPT ![id] = updatedLoan]
      /\ threads' = [threads EXCEPT !.proc[p] =
           IF th.input.status = "approved"
             THEN [th EXCEPT !.pc = "insert_installments", !.updatedLoan = updatedLoan]
             ELSE [th EXCEPT !.pc = "done", !.updatedLoan = updatedLoan,
                             !.outcome = "ok"]]
      /\ UNCHANGED <<users, installments, now, npayments, call,
                     accounts, transactions, report>>

(* createInstallmentSchedule: db.insert(loanInstallmentsTable). *)
InsertInstallments(p) ==
  LET th == threads.proc[p]
  IN  /\ th.pc = "insert_installments"
      /\ installments' = installments \o
           CreateInstallmentSchedule(th.input.loan_id, th.updatedLoan.amount,
                                     th.input.interest_rate, th.updatedLoan.term_months,
                                     th.updatedLoan.monthly_payment, now)
      /\ threads' = [threads EXCEPT !.proc[p] =
                       [th EXCEPT !.pc = "done", !.outcome = "ok"]]
      /\ UNCHANGED <<users, loans, now, npayments, call,
                     accounts, transactions, report>>

(* The decisions of the two calls: at least one approves. *)
ConcurrentDecisions ==
  {<<"approved", "approved">>, <<"approved", "rejected">>, <<"rejected", "approved">>}

InitApprovals ==
  /\ users = [i \in UserIds |-> [is_active |-> TRUE]]
  /\ accounts = NewAccounts(users)
  /\ transactions = << >>
  /\ report = NoReport
  /\ installments = << >>
  /\ now = 1
  /\ npayments = 0
  /\ call = Call("apply", "ok")
  /\ \E input \in LoanApplicationInputs, d \in ConcurrentDecisions,
        r1 \in RateInputs, r2 \in RateInputs, by \in ApproverInputs :
       /\ UserExists(users, input.user_id)
       /\ loans = <<NewLoan(input)>>
       /\ threads =
            [ pre  |-> [loans |-> loans, installments |-> << >>],
              proc |-> << ProcessThread(ProcessInput(1, d[1], by, r1)),
                          ProcessThread(ProcessInput(1, d[2], by, r2)) >> ]

NextApprovals ==
  \E p \in DOMAIN threads.proc :
    \/ SelectApplication(p)
    \/ UpdateApplication(p)
    \/ InsertInstallments(p)

SpecApprovals == InitApprovals /\ [][NextApprovals]_vars

----------------------------------------------------------------------------
(* Two createTransaction calls running concurrently, one database          *)
(* statement (or db.transaction) at a time, after a deposit of 0.02 on     *)
(* account 1.                                                              *)

(* A call that has not run its first statement. *)
TransactionThread(input) ==
  [ pc             |-> "select_account",
    input          |-> input,
    currentBalance |-> NULL,
    outcome        |-> "none" ]

(* db.select() from accounts, and the balance check on the row read. *)
SelectAccount(p) ==
  LET th == threads.proc[p]
      id == th.input.account_id
  IN  /\ th.pc = "select_account"
      /\ threads' = [threads EXCEPT !.proc[p] =
           IF id \notin DOMAIN accounts
             THEN [th EXCEPT !.pc = "done", !.outcome = "AccountNotFound"]
           ELSE IF InsufficientBalance(ParseFloat(accounts[id].balance), th.input)
             THEN [th EXCEPT !.pc = "done", !.outcome = "InsufficientBalance"]
           ELSE [th EXCEPT !.pc = "select_processor",
                           !.currentBalance = ParseFloat(accounts[id].balance)]]
      /\ UNCHANGED <<users, loans, installments, now, npayments, call,
                     accounts, transactions, report>>

(* db.select() from users. *)
SelectProcessor(p) ==
  LET th == threads.proc[p]
  IN  /\ th.pc = "select_processor"
      /\ threads' = [threads EXCEPT !.proc[p] =
           IF ~UserExists(users, th.input.processed_by)
             THEN [th EXCEPT !.pc = "done", !.outcome = "ProcessorNotFound"]
             ELSE [th EXCEPT !.pc = "transaction"]]
      /\ UNCHANGED <<users, loans, installments, now, npayments, call,
                     accounts, transactions, report>>

(* db.transaction: the insert of the transaction and the update of the     *)
(* balance, with newBalance computed from the balance read earlier.        *)
CommitTransaction(p) ==
  LET th == threads.proc[p]
  IN  /\ th.pc = "transaction"
      /\ transactions' = Append(transactions, NewTransaction(th.input, now))
      /\ accounts' = [accounts EXCEPT ![th.input.account_id].balance =
                        ToNumeric2(NewBalance(th.currentBalance, th.input))]
      /\ threads' = [threads EXCEPT !.proc[p] =
                       [th EXCEPT !.pc = "done", !.outcome = "ok"]]
      /\ UNCHANGED <<users, loans, installments, now, npayments, call, report>>

InitTransactions ==
  /\ users = [i \in UserIds |-> [is_active |-> TRUE]]
  /\ report = NoReport
  /\ loans = << >>
  /\ installments = << >>
  /\ now = 1
  /\ npayments = 0
  /\ call = Call("transaction", "ok")
  /\ LET res == TransactionResult(NewAccounts(users), << >>, users,
                                  [account_id |-> 1, type |-> "deposit",
                                   amount |-> 20, processed_by |-> 2],
                                  now, "none")
     IN  /\ accounts = res.accounts
         /\ transactions = res.transactions
         /\ \E a \in TransactionInputs, b \in TransactionInputs :
              threads =
                [ pre  |-> [accounts |-> res.accounts, transactions |-> res.transactions],
                  proc |-> << TransactionThread(a), TransactionThread(b) >> ]

NextTransactions ==
  \E p \in DOMAIN threads.proc :
    \/ SelectAccount(p)
    \/ SelectProcessor(p)
    \/ CommitTransaction(p)

SpecTransactions == InitTransactions /\ [][NextTransactions]_vars

----------------------------------------------------------------------------
(* Properties *)

InstallmentsOf(ins, id) == {k \in DOMAIN ins : ins[k].loan_id = id}

(* C1: processLoanApplication with decision approved is all-or-nothing: a  *)
(* call that fails leaves the loans and the installments as they were, and *)
(* in no state is a loan active without term_months installments.          *)
C1_AllOrNothing ==
  [][ /\ (call'.op = "process" /\ call'.outcome # "ok")
           => (loans' = loans /\ installments' = installments)
      /\ \A id \in DOMAIN loans' :
           loans'[id].status = "active"
             => Cardinality(InstallmentsOf(installments', id)) = loans'[id].term_months
    ]_vars

(* C2: recordLoanPayment is atomic: a call that fails leaves the           *)
(* installment (paid_amount, is_paid, paid_at, recorded_by) and the loan   *)
(* as they were before the call.                                           *)
C2_PaymentAtomic ==
  [][ (call'.op = "pay" /\ call'.outcome # "ok")
        => (installments' = installments /\ loans' = loans) ]_vars

(* C3: processLoanApplication on a loan that is not pending fails with an  *)
(* invalid-state error, whatever the decision, and leaves the loan and the *)
(* installments unchanged.                                                 *)
C3_NonPendingRejected ==
  \A id \in DOMAIN loans, d \in DecisionInputs, by \in ApproverInputs,
     r \in RateInputs \cup {UNDEFINED}, fail \in ProcessFaults :
    loans[id].status # "pending" =>
      LET res == ProcessResult(loans, installments, ProcessInput(id, d, by, r), now, fail)
      IN  /\ res.outcome = "InvalidState"
          /\ res.loans = loans
          /\ res.installments = installments

C3_Witness ==
  /\ call.op = "process"
  /\ call.outcome = "InvalidState"
  /\ \E id \in DOMAIN loans :
       /\ loans[id].status = "active"
       /\ InstallmentsOf(installments, id) # {}

(* C4: the status of a loan changes only in a processLoanApplication call, *)
(* from pending to active or rejected; no loan ever has                    *)
(* status approved or completed, also when a payment brings                *)
(* remaining_balance to 0.                                                 *)
C4_StatusTransitions ==
  [][ /\ \A id \in DOMAIN loans :
           loans'[id].status # loans[id].status
             => (/\ call'.op = "process"
                 /\ loans[id].status = "pending"
                 /\ loans'[id].status \in {"active", "rejected"})
      /\ \A id \in DOMAIN loans' :
           loans'[id].status \in {"pending", "active", "rejected"}
    ]_vars

C4_Witness ==
  /\ call.op = "pay"
  /\ call.outcome = "ok"
  /\ \E id \in DOMAIN loans :
       /\ loans[id].status = "active"
       /\ loans[id].total_amount > 0
       /\ loans[id].remaining_balance = 0

(* C5: approving a pending loan with an interest rate stores that rate,    *)
(* status active, the approver, an approval time, a positive               *)
(* monthly_payment and remaining_balance = total_amount.                   *)
C5_ApprovalValues ==
  \A id \in DOMAIN loans, by \in ApproverInputs, r \in RateInputs :
    loans[id].status = "pending" =>
      LET res == ProcessResult(loans, installments,
                               ProcessInput(id, "approved", by, r), now, "none")
          loan == res.loans[id]
      IN  /\ res.outcome = "ok"
          /\ loan.interest_rate * 10 = r
          /\ loan.status = "active"
          /\ loan.approved_by = by
          /\ loan.approved_at # NULL
          /\ loan.monthly_payment > 0
          /\ loan.remaining_balance = loan.total_amount

(* C6: every active loan has exactly term_months installments, numbered    *)
(* 1..term_months without duplicates, and every installment is created     *)
(* unpaid: paid_amount 0, is_paid false, paid_at and recorded_by null.     *)
C6_FullSchedule ==
  [][ /\ \A id \in DOMAIN loans' :
           loans'[id].status = "active"
             => LET rows == InstallmentsOf(installments', id)
                IN  /\ Cardinality(rows) = loans'[id].term_months
                    /\ {installments'[k].installment_number : k \in rows}
                         = 1..loans'[id].term_months
      /\ \A k \in DOMAIN installments' \ DOMAIN installments :
           /\ installments'[k].paid_amount = 0
           /\ installments'[k].is_paid = FALSE
           /\ installments'[k].paid_at = NULL
           /\ installments'[k].recorded_by = NULL
    ]_vars

(* C7: rejecting a pending loan sets status rejected and approved_by,      *)
(* leaves approved_at null and every other field of the loan as it was     *)
(* (the financial fields at 0), and creates no installment.                *)
C7_Rejection ==
  \A id \in DOMAIN loans, by \in ApproverInputs, r \in RateInputs \cup {UNDEFINED} :
    loans[id].status = "pending" =>
      LET res == ProcessResult(loans, installments,
                               ProcessInput(id, "rejected", by, r), now, "none")
          loan == res.loans[id]
      IN  /\ res.outcome = "ok"
          /\ loan = [loans[id] EXCEPT !.status = "rejected", !.approved_by = by]
          /\ loan.approved_at = NULL
          /\ loan.interest_rate = 0
          /\ loan.monthly_payment = 0
          /\ loan.total_amount = 0
          /\ loan.remaining_balance = 0
          /\ res.installments = installments

C7_Witness ==
  /\ call.op = "process"
  /\ call.outcome = "ok"
  /\ \E id \in DOMAIN loans :
       /\ loans[id].status = "rejected"
       /\ loans[id].approved_by \in ApproverInputs
       /\ InstallmentsOf(installments, id) = {}

(* C8: approving without an interest rate fails with a missing-argument    *)
(* error before any write: loan and installments stay as they were.        *)
C8_MissingRate ==
  \A id \in DOMAIN loans, by \in ApproverInputs, fail \in ProcessFaults :
    loans[id].status = "pending" =>
      LET res == ProcessResult(loans, installments,
                               ProcessInput(id, "approved", by, UNDEFINED), now, fail)
      IN  /\ res.outcome = "MissingArgument"
          /\ res.loans = loans
          /\ res.installments = installments

C8_Witness ==
  /\ call.op = "process"
  /\ call.outcome = "MissingArgument"
  /\ \E id \in DOMAIN loans : loans[id].status = "pending"
  /\ installments = << >>

(* C9: a pending loan has interest_rate, monthly_payment, total_amount and *)
(* remaining_balance 0 and approved_by, approved_at, disbursed_at null.    *)
C9_PendingZero ==
  \A id \in DOMAIN loans :
    loans[id].status = "pending" =>
      /\ loans[id].interest_rate = 0
      /\ loans[id].monthly_payment = 0
      /\ loans[id].total_amount = 0
      /\ loans[id].remaining_balance = 0
      /\ loans[id].approved_by = NULL
      /\ loans[id].approved_at = NULL
      /\ loans[id].disbursed_at = NULL

C9_Witness ==
  /\ call.op = "apply"
  /\ call.outcome = "ok"
  /\ \E id \in DOMAIN loans : loans[id].status = "pending" /\ loans[id].amount > 0

(* C10: the remaining_balance of an approved loan is never negative and    *)
(* never increases, whatever call is made and however it ends.             *)
C10_BalanceMonotone ==
  [][ /\ \A id \in DOMAIN loans :
           loans[id].status = "active"
             => loans'[id].remaining_balance <= loans[id].remaining_balance
      /\ \A id \in DOMAIN loans' : loans'[id].remaining_balance >= 0
    ]_vars

C10_Witness ==
  /\ call.op = "pay"
  /\ call.outcome = "ok"
  /\ \E id \in DOMAIN loans :
       /\ loans[id].status = "active"
       /\ loans[id].remaining_balance < loans[id].total_amount

(* A recordLoanPayment input. *)
PaymentInput(id, p, by) == [installment_id |-> id, paid_amount |-> p, recorded_by |-> by]

(* The payment p on installment k is within what is still due. *)
WithinDue(ins, k, p) == ParseFloat(ins[k].paid_amount) + p <= ParseFloat(ins[k].amount)

(* C11: a recordLoanPayment of a positive paid_amount that does not exceed *)
(* what is due on an existing installment succeeds, reduces the parent     *)
(* loan's remaining_balance by exactly paid_amount (to 0 when the          *)
(* difference is negative) and changes no other field of the loan, no      *)
(* other loan and no other installment.                                    *)
C11_BalanceReduced ==
  \A k \in DOMAIN installments, by \in ApproverInputs :
    \A p \in PaidAmountInputs(installments[k]) :
      WithinDue(installments, k, p) =>
        LET lid == installments[k].loan_id
            res == PaymentResult(loans, installments, PaymentInput(k, p, by), now, "none")
        IN  /\ res.outcome = "ok"
            /\ ParseFloat(res.loans[lid].remaining_balance)
                 = Max(0, ParseFloat(loans[lid].remaining_balance) - p)
            /\ res.loans = [loans EXCEPT ![lid].remaining_balance =
                                           res.loans[lid].remaining_balance]
            /\ \A j \in DOMAIN installments :
                 j # k => res.installments[j] = installments[j]

(* C12: a recordLoanPayment whose paid_amount would bring the cumulative   *)
(* paid_amount above the installment's amount fails with an overpayment    *)
(* error and leaves the installments and the loans unchanged, on a fresh   *)
(* installment and after partial payments.                                 *)
C12_OverpaymentRejected ==
  \A k \in DOMAIN installments, by \in ApproverInputs, fail \in PaymentFaults :
    \A p \in PaidAmountInputs(installments[k]) :
      ~WithinDue(installments, k, p) =>
        LET res == PaymentResult(loans, installments, PaymentInput(k, p, by), now, fail)
        IN  /\ res.outcome = "Overpayment"
            /\ res.installments = installments
            /\ res.loans = loans

C12_Witness ==
  /\ call.op = "pay"
  /\ call.outcome = "Overpayment"
  /\ \E k \in DOMAIN installments :
       /\ installments[k].paid_amount > 0
       /\ installments[k].paid_amount < installments[k].amount
       /\ ~WithinDue(installments, k, ParseFloat(installments[k].amount))

(* C13: after any sequence of processLoanApplication and                   *)
(* recordLoanPayment calls every installment has                           *)
(* 0 <= paid_amount <= amount, and the paid_amount of an installment never *)
(* decreases from one state to the next.                                   *)
C13_PaidAmountRange ==
  [][ \A k \in DOMAIN installments' :
        /\ 0 <= installments'[k].paid_amount
        /\ installments'[k].paid_amount <= installments'[k].amount
        /\ k \in DOMAIN installments
             => installments'[k].paid_amount >= installments[k].paid_amount
    ]_vars

(* C14: in every reachable state, for every installment, is_paid is true   *)
(* if and only if paid_amount >= amount.                                   *)
C14_IsPaidIffFull ==
  \A k \in DOMAIN installments :
    installments[k].is_paid <=> (installments[k].paid_amount >= installments[k].amount)

(* C15: the paid_at of an installment is null as long as the installment   *)
(* is not fully paid, becomes non-null at the recordLoanPayment call that  *)
(* first brings paid_amount up to amount, and never changes after that;    *)
(* in every state paid_at is non-null if and only if is_paid is true.      *)
C15_PaidAtSetOnce ==
  [][ \A k \in DOMAIN installments' :
        /\ (installments'[k].paid_at # NULL) <=> installments'[k].is_paid
        /\ installments'[k].paid_amount < installments'[k].amount
             => installments'[k].paid_at = NULL
        /\ k \in DOMAIN installments =>
             /\ installments[k].paid_at # NULL
                  => installments'[k].paid_at = installments[k].paid_at
             /\ (/\ installments[k].paid_amount < installments[k].amount
                 /\ installments'[k].paid_amount >= installments'[k].amount)
                  => (call'.op = "pay" /\ installments'[k].paid_at # NULL)
    ]_vars

(* Both concurrent calls have returned. *)
AllDone == \A p \in DOMAIN threads.proc : threads.proc[p].pc = "done"

(* The tables left by call a and then call b, run one after the other. *)
SeqPayments(pre, a, b) ==
  LET r1 == PaymentResult(pre.loans, pre.installments, a, now, "none")
  IN  PaymentResult(r1.loans, r1.installments, b, now, "none")

(* C16: concurrent recordLoanPayment calls on two different installments   *)
(* do not conflict: whatever the interleaving, the final tables are those  *)
(* of running the two calls one after the other, also when both            *)
(* installments belong to the same loan.                                   *)
C16_DifferentInstallments ==
  (/\ threads.proc # << >>
   /\ AllDone
   /\ threads.proc[1].input.installment_id # threads.proc[2].input.installment_id)
    => \E a \in DOMAIN threads.proc, b \in DOMAIN threads.proc :
         /\ a # b
         /\ LET seq == SeqPayments(threads.pre, threads.proc[a].input,
                                   threads.proc[b].input)
            IN  /\ loans = seq.loans
                /\ installments = seq.installments

(* paid_amount of the calls on installment k that returned successfully. *)
PaidBy(p, k) ==
  IF threads.proc[p].input.installment_id = k /\ threads.proc[p].outcome = "ok"
    THEN threads.proc[p].input.paid_amount ELSE 0

(* C17: concurrent recordLoanPayment calls on the same installment lose no *)
(* update: the final paid_amount is the paid_amount before the calls plus  *)
(* the paid_amount of every call that returned successfully, and it does   *)
(* not exceed the installment's amount.                                    *)
C17_NoLostUpdate ==
  (/\ threads.proc # << >>
   /\ AllDone
   /\ threads.proc[1].input.installment_id = threads.proc[2].input.installment_id)
    => \A k \in DOMAIN installments :
         /\ ParseFloat(installments[k].paid_amount)
              = ParseFloat(threads.pre.installments[k].paid_amount)
                  + PaidBy(1, k) + PaidBy(2, k)
         /\ installments[k].paid_amount <= installments[k].amount

(* C18 as stated: for every approved loan, for every rate >= 0 and term    *)
(* >= 1, the stored total_amount equals the stored monthly_payment         *)
(* multiplied by term_months.                                              *)
C18_TotalIsPaymentTimesTerm ==
  \A id \in DOMAIN loans :
    loans[id].status = "active"
      => loans[id].total_amount = loans[id].monthly_payment * loans[id].term_months

(* C18 amended: a loan approved with a rate > 0 has total_amount =         *)
(* monthly_payment * term_months on the stored values; a loan approved     *)
(* with rate 0 has total_amount = its principal.                           *)
C18_TotalByRate ==
  \A id \in DOMAIN loans, by \in ApproverInputs, r \in ScheduleRateInputs :
    loans[id].status = "pending" =>
      LET res == ProcessResult(loans, installments,
                               ProcessInput(id, "approved", by, r), now, "none")
          loan == res.loans[id]
      IN  /\ res.outcome = "ok"
          /\ r > 0 => loan.total_amount = loan.monthly_payment * loan.term_months
          /\ r = 0 => loan.total_amount = loan.amount

C18_Witness ==
  /\ call.op = "process"
  /\ call.outcome = "ok"
  /\ \E id \in DOMAIN loans :
       /\ loans[id].status = "active"
       /\ loans[id].interest_rate > 0
       /\ loans[id].term_months > 1
       /\ loans[id].monthly_payment > 0
       /\ loans[id].total_amount > loans[id].amount

(* The sum of principal_amount over the rows rows of ins. *)
RECURSIVE SumPrincipal(_, _)
SumPrincipal(ins, rows) ==
  IF rows = {} THEN 0
  ELSE LET k == CHOOSE x \in rows : TRUE
       IN  ins[k].principal_amount + SumPrincipal(ins, rows \ {k})

(* C19: for every loan approved with a rate > 0 and term n, the sum of the *)
(* stored principal_amount of its n installments equals the loan's         *)
(* principal within 1 cent.                                                *)
C19_PrincipalReconciles ==
  \A id \in DOMAIN loans :
    (/\ loans[id].status = "active"
     /\ loans[id].interest_rate > 0
     /\ Cardinality(InstallmentsOf(installments, id)) = loans[id].term_months)
      => Abs(SumPrincipal(installments, InstallmentsOf(installments, id))
               - loans[id].amount) <= 1

(* The store holds no loan, no installment and no transaction, and no      *)
(* account holds money.                                                    *)
EmptyStore ==
  /\ loans = << >>
  /\ installments = << >>
  /\ transactions = << >>
  /\ \A a \in DOMAIN accounts : accounts[a].balance = 0

(* C20: in a generated report collection_rate is 0 whenever total_expected *)
(* is 0, and otherwise is total_collected / total_expected * 100 rounded   *)
(* to 2 decimals (a nearest value with 2 decimals); on an empty store      *)
(* every numeric field of the three sections is 0, for every date window.  *)
C20_CollectionRate ==
  \A s \in ReportDates, e \in ReportDates :
    LET rep == GenerateFinancialReport(transactions, accounts, loans,
                                       installments, s, e)
        st == rep.installments
    IN  /\ st.total_expected = 0 => st.collection_rate = 0
        /\ st.total_expected # 0
             => 2 * Abs(st.collection_rate * st.total_expected
                          - st.total_collected * 10000) <= Abs(st.total_expected)
        /\ EmptyStore
             => /\ \A f \in DOMAIN rep.savings : rep.savings[f] = 0
                /\ \A f \in DOMAIN rep.loans : rep.loans[f] = 0
                /\ \A f \in DOMAIN rep.installments : rep.installments[f] = 0

C23_NoOverdraft ==
  /\ \A a \in DOMAIN accounts : accounts[a].balance >= 0
  /\ \A input \in TransactionInputs :
       (input.account_id \in DOMAIN accounts /\ input.type = "withdrawal")
         => LET res == TransactionResult(accounts, transactions, users, input,
                                         now, "none")
                balance == ParseFloat(accounts[input.account_id].balance)
            IN  /\ input.amount > balance
                     => /\ res.outcome = "InsufficientBalance"
                        /\ res.accounts = accounts
                        /\ res.transactions = transactions
                /\ (input.amount = balance /\ UserExists(users, input.processed_by))
                     => /\ res.outcome = "ok"
                        /\ res.accounts[input.account_id].balance = 0
                        /\ Len(res.transactions) = Len(transactions) + 1

(* A withdrawal of exactly the balance was accepted. *)
C23_Witness ==
  /\ call = Call("transaction", "ok")
  /\ Len(transactions) = 2
  /\ transactions[1].type = "deposit"
  /\ transactions[2].type = "withdrawal"
  /\ transactions[2].account_id = transactions[1].account_id
  /\ transactions[2].amount = transactions[1].amount
  /\ transactions[1].amount > 0
  /\ accounts[transactions[2].account_id].balance = 0

(* C24: after processLoanApplication and recordLoanPayment calls run one   *)
(* at a time, every active loan has remaining_balance = max(0,             *)
(* total_amount - sum of paid_amount over its installments).               *)
C24_BalanceFormula ==
  \A id \in DOMAIN loans :
    loans[id].status = "active"
      => loans[id].remaining_balance =
           Max(0, loans[id].total_amount
                    - SumOver([k \in DOMAIN installments |-> installments[k].paid_amount],
                              InstallmentsOf(installments, id)))

(* The tables after recordLoanPayment was called on each installment in    *)
(* ids on which something is still due, in increasing order, with what is  *)
(* still due on it.                                                        *)
RECURSIVE PayInFull(_, _, _, _)
PayInFull(ls, ins, ids, t) ==
  IF ids = {} THEN [loans |-> ls, installments |-> ins]
  ELSE LET k == CHOOSE x \in ids : \A y \in ids : x <= y
           due == ParseFloat(ins[k].amount - ins[k].paid_amount)
           res == IF due > 0
                    THEN PaymentResult(ls, ins, PaymentInput(k, due, 2), t, "none")
                    ELSE [loans |-> ls, installments |-> ins]
       IN  PayInFull(res.loans, res.installments, ids \ {k}, t)

(* C25: once every installment of an approved loan is fully paid through   *)
(* recordLoanPayment the remaining_balance of the loan is 0: the sum of    *)
(* the installment amounts of the schedule equals total_amount, for rate 0 *)
(* and for rate > 0.                                                       *)
C25_PaidOff ==
  \A id \in DOMAIN loans :
    LET rows == InstallmentsOf(installments, id)
        paid == PayInFull(loans, installments, rows, now)
    IN  (loans[id].status = "active" /\ Cardinality(rows) = loans[id].term_months)
          => /\ SumOver([k \in DOMAIN installments |-> installments[k].amount], rows)
                  = loans[id].total_amount
             /\ (\A k \in rows : paid.installments[k].is_paid)
                  => paid.loans[id].remaining_balance = 0

(* C27: every payment accepted by recordLoanPayment is counted in the      *)
(* installments section of a report whose window contains the time of the  *)
(* payment: after a partial payment p (0.01 here) on an otherwise unpaid   *)
(* installment, such a report has total_collected >= p.                    *)
C27_PartialCollected ==
  \A id \in DOMAIN installments, s \in 1..now, e \in now..(MaxClock + 1) :
    LET p == 10
        res == PaymentResult(loans, installments, PaymentInput(id, p, 2), now, "none")
        st == CalculateInstallmentStatistics(res.installments, s, e)
    IN  ( /\ installments[id].paid_amount = 0
          /\ p < ParseFloat(installments[id].amount)
          /\ res.outcome = "ok" )
          => ParseFloat(st.total_collected) >= p

(* C28: a loan approved through processLoanApplication at a time inside    *)
(* the report window contributes its principal to total_disbursed: right   *)
(* after the approval of the only loan of the store, a report whose window *)
(* contains the approval time has total_disbursed = amount of the loan.    *)
C28_ApprovedIsDisbursed ==
  (call = Call("process", "ok") /\ Len(loans) = 1 /\ loans[1].status = "active")
    => \A s \in 1..loans[1].approved_at, e \in loans[1].approved_at..(MaxClock + 1) :
         CalculateLoanStatistics(loans, installments, s, e).total_disbursed
           = loans[1].amount

(* C29: after deleteUser, applyForLoan and processLoanApplication calls no *)
(* user with is_active = false owns a loan whose status is pending,        *)
(* approved or active.                                                     *)
C29_InactiveHasNoLoan ==
  \A u \in DOMAIN users :
    ~users[u].is_active => OutstandingLoans(loans, u) = {}

(* The store states the tables went through while the two calls ran: the   *)
(* state before the calls, the state after the installment update of the   *)
(* payment and the final state.                                            *)
StoreStates ==
  { threads.pre,
    [loans |-> threads.pre.loans, installments |-> installments],
    [loans |-> loans, installments |-> installments] }

(* C22: a report generated while a recordLoanPayment call runs             *)
(* concurrently reflects a single point in time: there is one store state, *)
(* reached between two writes, from which every field of the three         *)
(* sections would be computed to the values returned.                      *)
C22_SingleSnapshot ==
  (threads.proc # << >> /\ AllDone)
    => \E st \in StoreStates :
         threads.proc[2].read =
           GenerateFinancialReport(transactions, accounts, st.loans, st.installments,
                                   threads.proc[2].input.start_date,
                                   threads.proc[2].input.end_date)

(* C26: when two processLoanApplication calls for the same pending loan    *)
(* interleave, at most one takes effect: in the final state the loan is    *)
(* active with exactly term_months installments numbered 1..term_months    *)
(* once each, or rejected with no installments.                            *)
C26_OneDecision ==
  (threads.proc # << >> /\ AllDone)
    => /\ Cardinality({p \in DOMAIN threads.proc : threads.proc[p].outcome = "ok"}) <= 1
       /\ \A id \in DOMAIN loans :
            LET rows == InstallmentsOf(installments, id)
            IN  \/ /\ loans[id].status = "active"
                   /\ Cardinality(rows) = loans[id].term_months
                   /\ \A n \in 1..loans[id].term_months :
                        Cardinality({k \in rows : installments[k].installment_number = n}) = 1
                \/ /\ loans[id].status = "rejected"
                   /\ rows = {}

(* The transactions of the given type recorded on account a by the calls. *)
RecordedBy(a, type) ==
  {k \in (Len(threads.pre.transactions) + 1)..Len(transactions) :
     transactions[k].account_id = a /\ transactions[k].type = type}

(* C30: for every account, also when createTransaction calls on it         *)
(* interleave, the stored balance is the balance before the calls plus the *)
(* amounts of the deposits recorded minus the amounts of the withdrawals   *)
(* recorded.                                                               *)
C30_BalanceMatchesLedger ==
  (threads.proc # << >> /\ AllDone)
    => \A a \in DOMAIN accounts :
         LET amount == [k \in DOMAIN transactions |-> transactions[k].amount]
         IN  accounts[a].balance =
               threads.pre.accounts[a].balance
                 + SumOver(amount, RecordedBy(a, "deposit"))
                 - SumOver(amount, RecordedBy(a, "withdrawal"))

====
